---- MODULE Spec2Model ----
(***************************************************************************)
(* Model of markov(n, h_h, l_l) from markov_chains1.ipynb: the simulation  *)
(* of a two-state Markov chain (1 = high, 0 = low) driven by draws of the  *)
(* ambient numpy generator, and of the notebook cells that call it         *)
(* repeatedly with the same arguments (%timeit markov(100000,0.8,0.9)).    *)
(*                                                                         *)
(* Reals are modelled on a grid: a probability p stands for p/Scale and a  *)
(* draw r for r/Scale, so draws range over 0..Scale-1 (the interval [0,1)) *)
(* and valid probabilities over 0..Scale (the interval [0,1]); 1.0 is      *)
(* Scale.  Arguments outside the documented ranges are included because    *)
(* the function accepts them.  Arrays are functions on 0..n-1, as in the   *)
(* source.  The later sections model markov1, gram_schmidt with the        *)
(* projection cells, geo_sum and the two grid searches, each under a       *)
(* specification of its own.                                               *)
(***************************************************************************)
EXTENDS Integers, Sequences, FiniteSets, TLC

\* ---- bounds of the model ----
MaxN == 3
Scale == 2
MaxCalls == 2

\* ---- input domains ----
NRange == -1..MaxN
Probs == -1..(Scale + 1)
ValidProbs == 0..Scale
Draws == 0..(Scale - 1)

VARIABLES n, h_h, l_l, seq_states, x, i, pc, err, ret, rng, calls, last, used, written

\* the other routines of the notebooks, each with its locals in one record:
\* m1 (markov1), gs (gram_schmidt and the projection cells), geo (geo_sum),
\* grd (the two grid searches)
VARIABLES m1, gs, geo, grd

vars == <<n, h_h, l_l, seq_states, x, i, pc, err, ret, rng, calls, last, used, written,
          m1, gs, geo, grd>>

\* a routine that is not running
Off == [pc |-> "off"]

\* ---- np.empty: content of a cell that was never written ----
Uninit == 2

GarbageValues == {0, 1, Uninit}

Empty == [j \in {} |-> 0]

npEmpty(len) == [j \in 0..(len - 1) |-> Uninit]

\* reading a cell: a written cell yields its value, an unwritten one anything
ReadCell(c) == IF c = Uninit THEN GarbageValues ELSE {c}

\* storing a Python bool into a float array
AsFloat(b) == IF b THEN 1 ELSE 0

\* ---- the pieces of the main loop ----
LoopCond_short(idx, len) == idx < len - 2

LoopCond_le(idx, len) == idx <= len - 1

LoopCond(idx, len) == idx < len - 1

ReadIdx_next(idx) == idx + 1

ReadIdx(idx) == idx

DrawIdx_first(idx) == 0

DrawIdx(idx) == idx

WriteIdx_same(idx) == idx

WriteIdx(idx) == idx + 1

NextFromHigh_le(r, hh) == AsFloat(r <= hh)

NextFromHigh_gt(r, hh) == AsFloat(r > hh)

NextFromHigh(r, hh) == AsFloat(r < hh)

NextFromLow_ge(r, ll) == AsFloat(r >= ll)

NextFromLow_lt(r, ll) == AsFloat(r < ll)

NextFromLow(r, ll) == AsFloat(r > ll)

RngAfter_same(pos, len) == pos

RngAfter(pos, len) == pos + len

\* ---- state after construction: the notebook cell fixes the arguments ----
Init ==
    /\ n \in NRange
    /\ h_h \in Probs
    /\ l_l \in Probs
    /\ seq_states = Empty
    /\ x = Empty
    /\ i = 0
    /\ pc = "idle"
    /\ err = "none"
    /\ ret = Empty
    /\ rng = 0
    /\ calls = 0
    /\ last = [x |-> Empty, ret |-> Empty]
    /\ used = <<>>
    /\ written = <<>>
    /\ m1 = Off
    /\ gs = Off
    /\ geo = Off
    /\ grd = Off

\* the caller enters markov (again) with the same arguments
Call ==
    /\ pc \in {"idle", "done"}
    /\ calls < MaxCalls
    /\ calls' = calls + 1
    /\ last' = IF pc = "done" THEN [x |-> x, ret |-> ret] ELSE last
    /\ seq_states' = Empty
    /\ x' = Empty
    /\ i' = 0
    /\ ret' = Empty
    /\ used' = <<>>
    /\ written' = <<>>
    /\ pc' = "alloc"
    /\ UNCHANGED <<n, h_h, l_l, err, rng, m1, gs, geo, grd>>

\* seq_states = np.empty(n)
Alloc ==
    /\ pc = "alloc"
    /\ IF n < 0
       THEN /\ pc' = "error"
            /\ err' = "ValueError"
            /\ UNCHANGED seq_states
       ELSE /\ seq_states' = npEmpty(n)
            /\ pc' = "init"
            /\ UNCHANGED err
    /\ UNCHANGED <<n, h_h, l_l, x, i, ret, rng, calls, last, used, written, m1, gs, geo, grd>>

\* seq_states[0] = init_state
SetInit ==
    /\ pc = "init"
    /\ IF 0 \notin DOMAIN seq_states
       THEN /\ pc' = "error"
            /\ err' = "IndexError"
            /\ UNCHANGED <<seq_states, written>>
       ELSE /\ seq_states' = [seq_states EXCEPT ![0] = 1]
            /\ written' = Append(written, 0)
            /\ pc' = "draw"
            /\ UNCHANGED err
    /\ UNCHANGED <<n, h_h, l_l, x, i, ret, rng, calls, last, used, m1, gs, geo, grd>>

\* x = np.random.uniform(0, 1, size = n); i = 0
Draw ==
    /\ pc = "draw"
    /\ \E xs \in [0..(n - 1) -> Draws] : x' = xs
    /\ rng' = RngAfter(rng, n)
    /\ i' = 0
    /\ pc' = "loop"
    /\ UNCHANGED <<n, h_h, l_l, seq_states, err, ret, calls, last, used, written, m1, gs, geo, grd>>

\* one iteration of the while loop
LoopStep ==
    /\ pc = "loop"
    /\ LoopCond(i, n)
    /\ \E cur \in ReadCell(seq_states[ReadIdx(i)]) :
          LET r == x[DrawIdx(i)]
              nxt == IF cur = 1 THEN NextFromHigh(r, h_h) ELSE NextFromLow(r, l_l)
          IN  seq_states' = [seq_states EXCEPT ![WriteIdx(i)] = nxt]
    /\ used' = Append(used, DrawIdx(i))
    /\ written' = Append(written, WriteIdx(i))
    /\ i' = i + 1
    /\ UNCHANGED <<n, h_h, l_l, x, pc, err, ret, rng, calls, last, m1, gs, geo, grd>>

\* the loop condition fails: return(seq_states)
Return ==
    /\ pc = "loop"
    /\ ~LoopCond(i, n)
    /\ ret' = seq_states
    /\ pc' = "done"
    /\ UNCHANGED <<n, h_h, l_l, seq_states, x, i, err, rng, calls, last, used, written, m1, gs, geo, grd>>

Next == Call \/ Alloc \/ SetInit \/ Draw \/ LoopStep \/ Return

Spec == Init /\ [][Next]_vars

\* ---- shorthands for the claims ----
ValidArgs == n >= 1 /\ h_h \in ValidProbs /\ l_l \in ValidProbs

Binary == {0, 1}

\* positions whose transition has been carried out
Stepped == IF pc \in {"loop", "done"} THEN 0..(i - 1) ELSE {}

DoneCall == pc = "done"

SecondDone == pc = "done" /\ calls >= 2

One == Scale

\* C1: for n >= 1 and h_h, l_l in [0,1] the returned sequence has exactly n
\* elements, element 0 is 1 and every element is 0 or 1 (no cell of the
\* np.empty buffer is returned unwritten); for n = 1 it is [1].
C1_Result ==
    (DoneCall /\ ValidArgs) =>
        /\ DOMAIN ret = 0..(n - 1)
        /\ Cardinality(DOMAIN ret) = n
        /\ ret[0] = 1
        /\ \A j \in DOMAIN ret : ret[j] \in Binary
        /\ (n = 1 => ret = [j \in {0} |-> 1])

C1_Witness ==
    /\ DoneCall /\ ValidArgs
    /\ n = MaxN
    /\ \E j \in DOMAIN ret : ret[j] = 0
    /\ ret[n - 1] = 1

\* C2 as stated: from state 0 the next state is 0 when the draw r = x[i]
\* satisfies r > l_l, and 1 otherwise.
C2_Original ==
    \A j \in Stepped :
        seq_states[j] = 0 => seq_states[j + 1] = (IF x[j] > l_l THEN 0 ELSE 1)

\* C2 amended: from state 0 the next state is 1 when the draw r = x[i]
\* satisfies r > l_l, and 0 otherwise (l_l is the probability of staying low).
C2_Amended ==
    \A j \in Stepped :
        seq_states[j] = 0 => seq_states[j + 1] = (IF x[j] > l_l THEN 1 ELSE 0)

C2_Witness ==
    /\ DoneCall /\ ValidArgs
    /\ \E j \in Stepped : seq_states[j] = 0 /\ x[j] = l_l /\ seq_states[j + 1] = 0

\* C3: from state 1 the next state is 1 when the draw r = x[i] satisfies
\* r < h_h, and 0 otherwise.
C3_FromHigh ==
    \A j \in Stepped :
        seq_states[j] = 1 => seq_states[j + 1] = (IF x[j] < h_h THEN 1 ELSE 0)

C3_Witness ==
    /\ DoneCall /\ ValidArgs
    /\ \E j, k \in Stepped :
          /\ seq_states[j] = 1 /\ x[j] < h_h /\ seq_states[j + 1] = 1
          /\ seq_states[k] = 1 /\ x[k] = h_h /\ seq_states[k + 1] = 0

\* C4: with l_l = 1.0 and h_h in [0,1], once an element of the returned
\* sequence is 0 every later element is 0.
C4_LowAbsorbing ==
    (DoneCall /\ l_l = One /\ h_h \in ValidProbs) =>
        \A a, b \in DOMAIN ret : (a < b /\ ret[a] = 0) => ret[b] = 0

C4_Witness ==
    /\ DoneCall /\ l_l = One /\ h_h \in ValidProbs
    /\ n = MaxN
    /\ ret[1] = 0
    /\ x[n - 2] = Scale - 1

\* C5: with h_h = 1.0 and l_l in [0,1], once an element of the returned
\* sequence is 1 every later element is 1, so the whole sequence is 1.
C5_HighAbsorbing ==
    (DoneCall /\ h_h = One /\ l_l \in ValidProbs) =>
        /\ \A a, b \in DOMAIN ret : (a < b /\ ret[a] = 1) => ret[b] = 1
        /\ \A a \in DOMAIN ret : ret[a] = 1

C5_Witness ==
    /\ DoneCall /\ h_h = One /\ l_l \in ValidProbs
    /\ n = MaxN
    /\ \A j \in DOMAIN x : x[j] = Scale - 1

\* C6: two runs with the same n, h_h, l_l and the same draws x[0..n-1]
\* return element-by-element identical sequences.
C6_Deterministic ==
    (SecondDone /\ x = last.x) =>
        /\ DOMAIN ret = DOMAIN last.ret
        /\ \A j \in DOMAIN ret : ret[j] = last.ret[j]

C6_Witness ==
    /\ SecondDone /\ x = last.x
    /\ n = MaxN
    /\ \E j \in DOMAIN ret : ret[j] = 0

DrawsTaken ==
    IF pc \in {"loop", "done"} THEN calls
    ELSE IF pc \in {"alloc", "init", "draw"} THEN calls - 1
    ELSE 0

ReadCount(d) == Cardinality({t \in 1..Len(used) : used[t] = d})

\* C8 as stated: n values are drawn and every one of the n draws is read by
\* exactly one transition, every transition reading one draw of its own.
C8_Original ==
    DoneCall =>
        /\ DOMAIN x = 0..(n - 1)
        /\ \A d \in DOMAIN x : ReadCount(d) = 1

\* C8 amended: n values are drawn for the n - 1 transitions; transition i
\* reads exactly draw x[i], so each of the draws 0..n-2 is read by exactly
\* one transition, and the last draw x[n-1] is never read.
C8_Amended ==
    (pc \in {"loop", "done"}) =>
        /\ DOMAIN x = 0..(n - 1)
        /\ used = [t \in 1..i |-> t - 1]
        /\ ReadCount(n - 1) = 0
        /\ DoneCall => /\ Len(used) = n - 1
                       /\ \A d \in 0..(n - 2) : ReadCount(d) = 1

C8_Witness ==
    /\ DoneCall
    /\ n = MaxN
    /\ Len(used) = n - 1
    /\ ReadCount(n - 1) = 0

\* C9 as stated: a call with n < 1, or with h_h or l_l outside [0,1],
\* reports an InvalidParameter error at once and returns no sequence.
C9_Claim ==
    (calls >= 1 /\ ~ValidArgs) =>
        /\ pc \in {"alloc", "error"}
        /\ pc = "error" => err = "InvalidParameter"

\* C10: each position of the state sequence is written exactly once
\* (position 0 at initialisation, position i+1 at iteration i), and
\* iteration i leaves the positions 0..i as they were.
C10_WrittenOnce ==
    /\ [](/\ \A s, t \in 1..Len(written) : s # t => written[s] # written[t]
          /\ pc \in {"loop", "done"} => written = [t \in 1..(i + 1) |-> t - 1]
          /\ DoneCall => written = [t \in 1..n |-> t - 1])
    /\ [][(pc = "loop" /\ i' = i + 1) =>
             \A j \in 0..i : seq_states'[j] = seq_states[j]]_vars

C10_Witness ==
    /\ DoneCall
    /\ n = MaxN
    /\ written = [t \in 1..n |-> t - 1]
    /\ \E j \in DOMAIN ret : ret[j] = 0


(***************************************************************************)
(* gram_schmidt(X) and the projection cells of the linear-algebra          *)
(* notebook.  Arithmetic is exact: a matrix or vector of rationals is a    *)
(* record [num, den] of integer numerators over one positive denominator.  *)
(* A matrix is the function of its columns, X[c][r], indexed from 0.       *)
(* A column of U is a record [kind, num, rad]: for kind "val" its entries  *)
(* are num[r] / sqrt(rad); kind "nan" is the column 0/0, and "uninit" a    *)
(* column of np.empty that was never assigned.                             *)
(***************************************************************************)
\* the vectors of the notebook live in R^3 (X has three rows, y three entries)
GS_Rows == 3

MaxCols == 3

GS_Entries == {0, 1}

NotebookX == [c \in 0..1 |-> IF c = 0 THEN [r \in 0..2 |-> IF r = 0 THEN 1 ELSE IF r = 1 THEN 0 ELSE 2]
                                       ELSE [r \in 0..2 |-> IF r = 0 THEN 0 ELSE IF r = 1 THEN -6 ELSE 2]]

NotebookY == [r \in 0..2 |-> IF r = 0 THEN 1 ELSE IF r = 1 THEN 3 ELSE -3]

Matrices(rows, cols) == [0..(cols - 1) -> [0..(rows - 1) -> GS_Entries]]

GS_Inputs ==
    {NotebookX} \cup UNION {Matrices(GS_Rows, cols) : cols \in 0..MaxCols}

GS_Vectors(rows) ==
    [0..(rows - 1) -> GS_Entries] \cup {NotebookY}

\* the second component of X.shape
NumCols(A) == Cardinality(DOMAIN A)

RECURSIVE SumTo(_, _)
SumTo(f, m) == IF m = 0 THEN 0 ELSE f[m] + SumTo(f, m - 1)

\* sum of f over the indices 0..m-1
Sum0(f, m) == SumTo([t \in 1..m |-> f[t - 1]], m)

Dot(a, b) == Sum0([r \in DOMAIN a |-> a[r] * b[r]], Cardinality(DOMAIN a))

\* np.sum(v**2)
SumSq_abs(v) == Sum0([r \in DOMAIN v |-> IF v[r] < 0 THEN -v[r] ELSE v[r]], Cardinality(DOMAIN v))

SumSq(v) == Sum0([r \in DOMAIN v |-> v[r] * v[r]], Cardinality(DOMAIN v))

IdxSeq(m) == [t \in 1..m |-> t - 1]

Drop(s, p) == [t \in 1..(Len(s) - 1) |-> IF t < p THEN s[t] ELSE s[t + 1]]

Sign(p) == IF p % 2 = 0 THEN 1 ELSE -1

\* determinant of the square matrix G restricted to the given rows and
\* columns (expansion along the first row); 1 for the empty matrix
RECURSIVE DetOn(_, _, _)
DetOn(G, rows, cols) ==
    IF Len(rows) = 0 THEN 1
    ELSE SumTo([p \in 1..Len(cols) |->
                   Sign(p + 1) * G[cols[p]][rows[1]] * DetOn(G, Tail(rows), Drop(cols, p))],
               Len(cols))

Det(G) == DetOn(G, IdxSeq(NumCols(G)), IdxSeq(NumCols(G)))

\* Z.T @ Z
Gram(Z) == [b \in DOMAIN Z |-> [a \in DOMAIN Z |-> Dot(Z[a], Z[b])]]

Singular(G) == Det(G) = 0

\* np.linalg.inv(G) for a non-singular G: adjugate over determinant
Inv(G) ==
    LET m == NumCols(G)
        d == Det(G)
        sg == IF d < 0 THEN -1 ELSE 1
        cof(r, c) == Sign(r + c) * DetOn(G, Drop(IdxSeq(m), c + 1), Drop(IdxSeq(m), r + 1))
    IN  [num |-> [c \in 0..(m - 1) |-> [r \in 0..(m - 1) |-> sg * cof(r, c)]],
         den |-> sg * d]

\* Z @ A @ Z.T for an integer matrix A, as an n x n integer matrix
Sandwich(Z, A, rows) ==
    LET m == NumCols(Z)
    IN  [c \in 0..(rows - 1) |-> [r \in 0..(rows - 1) |->
            Sum0([a \in 0..(m - 1) |->
                     Z[a][r] * Sum0([b \in 0..(m - 1) |-> A[b][a] * Z[b][c]], m)], m)]]

\* np.eye(n) - Z @ inv(Z.T @ Z) @ Z.T
Annihilator(Z, rows) ==
    LET gi == Inv(Gram(Z))
        P == Sandwich(Z, gi.num, rows)
    IN  [num |-> [c \in 0..(rows - 1) |-> [r \in 0..(rows - 1) |->
                     (IF r = c THEN gi.den ELSE 0) - P[c][r]]],
         den |-> gi.den]

\* M @ v for a rational matrix M and an integer vector v
MatVec(M, v, rows) ==
    [num |-> [r \in 0..(rows - 1) |-> Sum0([c \in 0..(rows - 1) |-> M.num[c][r] * v[c]], rows)],
     den |-> M.den]

\* u / np.sqrt(np.sum(u**2)) for u = num/den with den > 0: the norm is
\* sqrt(SumSq(num))/den, so the quotient is num/sqrt(SumSq(num)); a zero u
\* gives 0/0, a column of NaN
Normalize(u) ==
    IF SumSq(u.num) = 0
    THEN [kind |-> "nan", num |-> u.num, rad |-> 0]
    ELSE [kind |-> "val", num |-> u.num, rad |-> SumSq(u.num)]

UninitCol == [kind |-> "uninit", num |-> Empty, rad |-> 0]

\* X[:, 0:i]
ZCols_incl(idx) == 0..idx

ZCols_skip(idx) == 1..(idx - 1)

ZCols(idx) == 0..(idx - 1)

\* the slice of X on a set of columns lo..hi, renumbered from 0
Slice(A, cs) ==
    IF cs = {} THEN Empty
    ELSE LET lo == CHOOSE c \in cs : \A d \in cs : c <= d
         IN  [c \in 0..(Cardinality(cs) - 1) |-> A[c + lo]]

GS_Init ==
    /\ n = 1 /\ h_h = 0 /\ l_l = 0
    /\ seq_states = Empty /\ x = Empty /\ i = 0
    /\ pc = "off" /\ err = "none" /\ ret = Empty
    /\ rng = 0 /\ calls = 0 /\ last = [x |-> Empty, ret |-> Empty]
    /\ used = <<>> /\ written = <<>>
    /\ m1 = Off /\ geo = Off /\ grd = Off
    /\ \E A \in GS_Inputs :
             gs = [pc |-> "setup", X |-> A, X0 |-> A, n |-> GS_Rows, k |-> NumCols(A),
                   U |-> Empty, i |-> 0, err |-> "none",
                   assigned |-> <<>>, zread |-> <<>>, xread |-> <<>>,
                   y |-> Empty, Py1 |-> Empty, Py2 |-> Empty]

MarkovIdle ==
    UNCHANGED <<n, h_h, l_l, seq_states, x, i, pc, err, ret, rng, calls, last, used, written>>

\* n, k = X.shape; U = np.empty((n,k))
GS_Setup ==
    /\ gs.pc = "setup"
    /\ gs' = [gs EXCEPT !.U = [c \in 0..(gs.k - 1) |-> UninitCol], !.pc = "first"]
    /\ MarkovIdle /\ UNCHANGED <<m1, geo, grd>>

\* v1 = X[:,0]; U[:,0] = v1/np.sqrt(np.sum(v1**2))
GS_First ==
    /\ gs.pc = "first"
    /\ IF gs.k = 0
       THEN gs' = [gs EXCEPT !.pc = "error", !.err = "IndexError"]
       ELSE gs' = [gs EXCEPT !.U[0] = Normalize([num |-> gs.X[0], den |-> 1]),
                             !.assigned = Append(@, 0),
                             !.i = 1,
                             !.pc = "loop"]
    /\ MarkovIdle /\ UNCHANGED <<m1, geo, grd>>

\* one iteration of for i in range(1,k)
GS_Step ==
    /\ gs.pc = "loop"
    /\ gs.i < gs.k
    /\ LET xi == gs.X[gs.i]
           Z == Slice(gs.X, ZCols(gs.i))
       IN  IF Singular(Gram(Z))
           THEN gs' = [gs EXCEPT !.pc = "error", !.err = "LinAlgError",
                                 !.zread = Append(@, ZCols(gs.i)),
                                 !.xread = Append(@, gs.i)]
           ELSE LET M == Annihilator(Z, gs.n)
                    u == MatVec(M, xi, gs.n)
                IN  gs' = [gs EXCEPT !.U[gs.i] = Normalize(u),
                                     !.assigned = Append(@, gs.i),
                                     !.zread = Append(@, ZCols(gs.i)),
                                     !.xread = Append(@, gs.i),
                                     !.i = gs.i + 1]
    /\ MarkovIdle /\ UNCHANGED <<m1, geo, grd>>

\* return U
GS_Return ==
    /\ gs.pc = "loop"
    /\ ~(gs.i < gs.k)
    /\ gs' = [gs EXCEPT !.pc = "returned"]
    /\ MarkovIdle /\ UNCHANGED <<m1, geo, grd>>


RECURSIVE ProdTo(_, _)
ProdTo(f, m) == IF m = 0 THEN 1 ELSE f[m] * ProdTo(f, m - 1)

\* product of f over the indices 0..m-1 other than skip
ProdOthers(f, m, skip) == ProdTo([t \in 1..m |-> IF t - 1 = skip THEN 1 ELSE f[t - 1]], m)

\* X @ np.linalg.inv(X.T @ X) @ X.T @ y
ClosedForm(A, v, rows) ==
    IF Singular(Gram(A))
    THEN [kind |-> "error", num |-> Empty, den |-> 1]
    ELSE LET gi == Inv(Gram(A))
             P == [num |-> Sandwich(A, gi.num, rows), den |-> gi.den]
         IN  [kind |-> "val", num |-> MatVec(P, v, rows).num, den |-> gi.den]

\* U @ U.T @ y: the entry (r, c) of U @ U.T is the sum over the columns a of
\* (num_a[r]/sqrt(rad_a)) * (num_a[c]/sqrt(rad_a)) = num_a[r]*num_a[c]/rad_a
ViaBasis(V, v, rows) ==
    LET m == NumCols(V)
        rads == [a \in 0..(m - 1) |-> V[a].rad]
    IN  IF \E a \in DOMAIN V : V[a].kind # "val"
        THEN [kind |-> "nan", num |-> Empty, den |-> 1]
        ELSE [kind |-> "val",
              num |-> [r \in 0..(rows - 1) |->
                         Sum0([a \in 0..(m - 1) |->
                                  V[a].num[r] * Dot(V[a].num, v) * ProdOthers(rads, m, a)], m)],
              den |-> ProdTo([t \in 1..m |-> rads[t - 1]], m)]

\* cell: y = [1, 3, -3]; Py1 = X@np.linalg.inv(X.T@X)@X.T @y
GS_Py1 ==
    /\ gs.pc = "returned"
    /\ \E v \in GS_Vectors(gs.n) :
          gs' = [gs EXCEPT !.y = v, !.Py1 = ClosedForm(gs.X, v, gs.n), !.pc = "py1"]
    /\ MarkovIdle /\ UNCHANGED <<m1, geo, grd>>

\* cell: U = gram_schmidt(X); Py2 = U@U.T@y
GS_Py2 ==
    /\ gs.pc = "py1"
    /\ gs' = [gs EXCEPT !.Py2 = ViaBasis(gs.U, gs.y, gs.n), !.pc = "done"]
    /\ MarkovIdle /\ UNCHANGED <<m1, geo, grd>>

GS_Next == GS_Setup \/ GS_First \/ GS_Step \/ GS_Return \/ GS_Py1 \/ GS_Py2

SpecGS == GS_Init /\ [][GS_Next]_vars

\* ---- shorthands for the claims about gram_schmidt ----
GS_Returned == gs.pc \in {"returned", "py1", "done"}

GS_Ended == gs.pc \in {"error", "returned", "py1", "done"}

HasDuplicateColumn(A) == \E a, b \in DOMAIN A : a < b /\ A[a] = A[b]

Independent(A) == NumCols(A) >= 1 /\ ~Singular(Gram(A))

BadColumn(col) == col.kind # "val" \/ \A r \in DOMAIN col.num : col.num[r] = 0

RatVecEq(p, q) ==
    /\ p.kind = "val" /\ q.kind = "val"
    /\ DOMAIN p.num = DOMAIN q.num
    /\ \A r \in DOMAIN p.num : p.num[r] * q.den = q.num[r] * p.den

\* num/den rounded to four decimals is t/10000
Approx4(num, den, t) ==
    LET diff == 10000 * num - t * den
        mag == IF diff < 0 THEN -diff ELSE diff
    IN  2 * mag <= den

\* C11 as stated: for X with a duplicated column gram_schmidt signals a
\* DegenerateSubspace failure and never returns a U with a NaN/Inf or zero
\* column.
C11_Claim ==
    (gs.pc # "off" /\ HasDuplicateColumn(gs.X) /\ GS_Ended) =>
        /\ gs.pc = "error"
        /\ gs.err = "DegenerateSubspace"

MaxGeoN == 4

GeoAlphas == -2..2

RECURSIVE Pow(_, _)
Pow(a, e) == IF e = 0 THEN 1 ELSE a * Pow(a, e - 1)

\* range(n)
GeoRange(len) == 0..(len - 1)

Geo_Init ==
    /\ n = 1 /\ h_h = 0 /\ l_l = 0
    /\ seq_states = Empty /\ x = Empty /\ i = 0
    /\ pc = "off" /\ err = "none" /\ ret = Empty
    /\ rng = 0 /\ calls = 0 /\ last = [x |-> Empty, ret |-> Empty]
    /\ used = <<>> /\ written = <<>>
    /\ m1 = Off /\ gs = Off /\ grd = Off
    /\ \E a \in GeoAlphas, len \in 0..MaxGeoN :
          geo = [pc |-> "start", alpha |-> a, n |-> len, i |-> 0, sum |-> 0, terms |-> 0]

\* sum = 0
Geo_Start ==
    /\ geo.pc = "start"
    /\ geo' = [geo EXCEPT !.sum = 0, !.i = 0, !.pc = "loop"]
    /\ MarkovIdle /\ UNCHANGED <<m1, gs, grd>>

\* for i in range(n): sum = sum + alpha**i
Geo_Step ==
    /\ geo.pc = "loop"
    /\ geo.i \in GeoRange(geo.n)
    /\ geo' = [geo EXCEPT !.sum = @ + Pow(geo.alpha, geo.i),
                          !.terms = @ + 1,
                          !.i = @ + 1]
    /\ MarkovIdle /\ UNCHANGED <<m1, gs, grd>>

\* return sum
Geo_Return ==
    /\ geo.pc = "loop"
    /\ geo.i \notin GeoRange(geo.n)
    /\ geo' = [geo EXCEPT !.pc = "done"]
    /\ MarkovIdle /\ UNCHANGED <<m1, gs, grd>>

Geo_Next == Geo_Start \/ Geo_Step \/ Geo_Return

SpecGeo == Geo_Init /\ [][Geo_Next]_vars

\* the sum of a^t for t from 0 to top inclusive
RECURSIVE GeoSeries(_, _)
GeoSeries(a, top) == IF top < 0 THEN 0 ELSE Pow(a, top) + GeoSeries(a, top - 1)

\* C14 as stated: geo_sum(alpha, n) returns the sum of alpha^i for i from 0
\* to n inclusive, n + 1 terms.
C14_Claim ==
    geo.pc = "done" =>
        /\ geo.sum = GeoSeries(geo.alpha, geo.n)
        /\ geo.terms = geo.n + 1

(***************************************************************************)
(* The two grid searches of the speed notebook: the nested loop over       *)
(* grid x grid, and f = np.vectorize(f); f(grid, grid).max(), which        *)
(* applies f to the two arguments element by element.  Grids are           *)
(* increasing sequences of integers and f is one of a family of integer    *)
(* functions; "radial" decreases in x^2 + y^2 as the notebook's f does     *)
(* near the origin.                                                        *)
(***************************************************************************)
MaxGrid == 3

GridVals == -2..2

GridFuns == {"radial", "diff", "prod"}

RECURSIVE SortedSeq(_)
SortedSeq(S) ==
    IF S = {} THEN <<>>
    ELSE LET lo == CHOOSE v \in S : \A w \in S : v <= w
         IN  <<lo>> \o SortedSeq(S \ {lo})

\* np.linspace: increasing points
Grids == {SortedSeq(S) : S \in {T \in SUBSET GridVals : Cardinality(T) \in 1..MaxGrid}}

\* f(x, y)
EvalF(f, a, b) ==
    IF f = "radial" THEN 0 - (a * a + b * b)
    ELSE IF f = "diff" THEN a - b
    ELSE a * b

\* m = -np.inf
NegInf == [inf |-> TRUE, val |-> 0]

\* z > m
Exceeds(z, m) == m.inf \/ z > m.val

\* the pairs np.vectorize(f)(grid, grid) evaluates: argument t with argument t
VecPairs(len) == {<<t, t>> : t \in 1..len}

RECURSIVE MaxOf(_)
MaxOf(S) ==
    LET v == CHOOSE w \in S : TRUE
    IN  IF S = {v} THEN v
        ELSE LET rest == MaxOf(S \ {v}) IN IF v > rest THEN v ELSE rest

Grid_Init ==
    /\ n = 1 /\ h_h = 0 /\ l_l = 0
    /\ seq_states = Empty /\ x = Empty /\ i = 0
    /\ pc = "off" /\ err = "none" /\ ret = Empty
    /\ rng = 0 /\ calls = 0 /\ last = [x |-> Empty, ret |-> Empty]
    /\ used = <<>> /\ written = <<>>
    /\ m1 = Off /\ gs = Off /\ geo = Off
    /\ \E g \in Grids, fn \in GridFuns :
          grd = [pc |-> "start", f |-> fn, grid |-> g, xi |-> 1, yi |-> 1,
                 m |-> NegInf, vmax |-> 0]

\* grid = np.linspace(-3,3,1000); m = -np.inf
Grid_Start ==
    /\ grd.pc = "start"
    /\ grd' = [grd EXCEPT !.m = NegInf, !.xi = 1, !.yi = 1, !.pc = "loop"]
    /\ MarkovIdle /\ UNCHANGED <<m1, gs, geo>>

\* one pass of the inner loop body: z = f(x,y); if z > m: m = z
Grid_Inner ==
    /\ grd.pc = "loop"
    /\ grd.xi <= Len(grd.grid)
    /\ LET z == EvalF(grd.f, grd.grid[grd.xi], grd.grid[grd.yi])
           last_y == grd.yi = Len(grd.grid)
       IN  grd' = [grd EXCEPT !.m = IF Exceeds(z, @) THEN [inf |-> FALSE, val |-> z] ELSE @,
                              !.yi = IF last_y THEN 1 ELSE @ + 1,
                              !.xi = IF last_y THEN @ + 1 ELSE @]
    /\ MarkovIdle /\ UNCHANGED <<m1, gs, geo>>

\* the outer loop is exhausted: print(m)
Grid_Print ==
    /\ grd.pc = "loop"
    /\ grd.xi > Len(grd.grid)
    /\ grd' = [grd EXCEPT !.pc = "vec"]
    /\ MarkovIdle /\ UNCHANGED <<m1, gs, geo>>

\* f = np.vectorize(f); f(grid,grid).max()
Grid_Vectorized ==
    /\ grd.pc = "vec"
    /\ grd' = [grd EXCEPT !.vmax = MaxOf({EvalF(grd.f, grd.grid[p[1]], grd.grid[p[2]]) :
                                             p \in VecPairs(Len(grd.grid))}),
                          !.pc = "done"]
    /\ MarkovIdle /\ UNCHANGED <<m1, gs, geo>>

Grid_Next == Grid_Start \/ Grid_Inner \/ Grid_Print \/ Grid_Vectorized

SpecGrid == Grid_Init /\ [][Grid_Next]_vars

\* C15 as stated: f(grid, grid).max() returns the same value as the double
\* loop, the maximum of f(x, y) over all pairs (x, y) of grid x grid.
C15_Claim ==
    grd.pc = "done" =>
        /\ ~grd.m.inf
        /\ grd.vmax = grd.m.val
        /\ grd.vmax = MaxOf({EvalF(grd.f, grd.grid[a], grd.grid[b]) :
                                a, b \in 1..Len(grd.grid)})


(***************************************************************************)
(* markov1(n, h_h, l_l), the first version of the simulation, run after    *)
(* markov on the same draws x (the generator reseeded to the same state).  *)
(***************************************************************************)
\* states = [1, 0]
M1_states == [j \in 0..1 |-> IF j = 0 THEN 1 ELSE 0]

\* if x[i] <= h_h: states[0] else: states[1]
M1_FromHigh(r, hh) == IF r <= hh THEN M1_states[0] ELSE M1_states[1]

\* if x[i] <= l_l: states[1] else: states[0]
M1_FromLow(r, ll) == IF r <= ll THEN M1_states[1] ELSE M1_states[0]

\* a single call of markov
FirstCall == Call /\ calls = 0

\* init_state = states[0]; seq_states = np.empty(n); seq_states[0] = init_state;
\* x = the draws markov was given; i = 0
M1_Start ==
    /\ pc = "done"
    /\ m1.pc = "off"
    /\ m1' = [pc |-> "loop",
              seq_states |-> [npEmpty(n) EXCEPT ![0] = M1_states[0]],
              x |-> x, i |-> 0, ret |-> Empty]
    /\ MarkovIdle /\ UNCHANGED <<gs, geo, grd>>

\* one iteration of the while loop of markov1
M1_Step ==
    /\ m1.pc = "loop"
    /\ m1.i < n - 1
    /\ \E cur \in ReadCell(m1.seq_states[m1.i]) :
          LET r == m1.x[m1.i]
              nxt == IF cur = 1 THEN M1_FromHigh(r, h_h) ELSE M1_FromLow(r, l_l)
          IN  m1' = [m1 EXCEPT !.seq_states[m1.i + 1] = nxt, !.i = @ + 1]
    /\ MarkovIdle /\ UNCHANGED <<gs, geo, grd>>

\* return(seq_states)
M1_Return ==
    /\ m1.pc = "loop"
    /\ ~(m1.i < n - 1)
    /\ m1' = [m1 EXCEPT !.ret = m1.seq_states, !.pc = "done"]
    /\ MarkovIdle /\ UNCHANGED <<gs, geo, grd>>

PairNext ==
    \/ FirstCall \/ Alloc \/ SetInit \/ Draw \/ LoopStep \/ Return
    \/ M1_Start \/ M1_Step \/ M1_Return

SpecPair == Init /\ [][PairNext]_vars

\* C16 as stated: for n >= 1 and h_h, l_l in [0,1], markov1 and markov run on
\* the same draws (draws equal to h_h or l_l included) return identical
\* sequences.
C16_Claim ==
    (m1.pc = "done" /\ ValidArgs) =>
        /\ m1.x = x
        /\ m1.ret = ret

(***************************************************************************)
(* One call of markov run to completion: the interpreter keeps executing   *)
(* the single thread, so every enabled step of the call is eventually      *)
(* taken.                                                                  *)
(***************************************************************************)
TermNext == FirstCall \/ Alloc \/ SetInit \/ Draw \/ LoopStep \/ Return

SpecTerm ==
    /\ Init
    /\ [][TermNext]_vars
    /\ WF_vars(FirstCall) /\ WF_vars(Alloc) /\ WF_vars(SetInit)
    /\ WF_vars(Draw) /\ WF_vars(LoopStep) /\ WF_vars(Return)

\* C18: for n >= 1 the main loop terminates after exactly n-1 iterations with
\* i increasing by one each iteration, and it reads seq_states[i] and x[i]
\* only for 0 <= i <= n-2 and writes seq_states[i+1] only for
\* 1 <= i+1 <= n-1.
C18_LoopBounds ==
    /\ [](pc \in {"loop", "done"} =>
             /\ i \in 0..(n - 1)
             /\ Len(used) = i
             /\ \A t \in 1..Len(used) : used[t] = t - 1 /\ used[t] \in 0..(n - 2)
             /\ \A t \in 1..Len(written) : written[t] = t - 1 /\ written[t] \in 0..(n - 1)
             /\ (pc = "done" => i = n - 1 /\ Len(used) = n - 1))
    /\ [][(pc = "loop" /\ pc' = "loop") =>
             /\ i' = i + 1
             /\ i \in 0..(n - 2)
             /\ ReadIdx(i) \in 0..(n - 2)
             /\ DrawIdx(i) \in 0..(n - 2)
             /\ WriteIdx(i) \in 1..(n - 1)
             /\ seq_states[ReadIdx(i)] # Uninit]_vars
    /\ (pc = "loop") ~> (pc = "done")

C18_Witness ==
    /\ pc = "done"
    /\ n = MaxN
    /\ i = n - 1
    /\ Len(used) = n - 1

====
